---- MODULE Spec2Model ----
(***************************************************************************)
(* Cart -> checkout -> order -> inventory core of the e-commerce backend.  *)
(*                                                                         *)
(* The database holds Products, Users (each embedding a cart) and Orders.  *)
(* Every request handler is an async function: each awaited database call  *)
(* is one step, and steps of different requests interleave freely.         *)
(* Prices are integer cents.  Product.name is copied into an order line    *)
(* next to Product.price and is not represented.                           *)
(***************************************************************************)
EXTENDS Integers, Sequences, FiniteSets, TLC

\* ---------------------------------------------------------------- bounds
NumProducts == 2
NumUsers == 2
MaxStock == 2
MaxQty == 2
MaxPrice == 2
MaxReqs == 2
MaxRequests == 4
MaxOrders == 2
NumOrderNumbers == 2

Products == 1..NumProducts
Users == 1..NumUsers
\* the admin account; it places no orders of its own in this model
Admin == 0
Actors == Users \cup {Admin}
Reqs == 1..MaxReqs
Prices == 1..MaxPrice
Quantities == 1..MaxQty
OrderNumbers == 1..NumOrderNumbers

VARIABLES
    products,   \* Products collection: id -> document (or a deleted slot)
    cart,       \* Users collection: user id -> embedded cart array
    orders,     \* Orders collection, in creation order
    req,        \* in-flight requests: handler position and local variables
    started,    \* number of requests received so far
    account,    \* Users collection: account id -> role and isActive
    client      \* the browser: AuthProvider and CartProvider state

vars == <<products, cart, orders, req, started, account, client>>

\* ------------------------------------------------------------ documents
role(a) == IF a = Admin THEN "admin" ELSE "user"

\* a second administrator, and the id of an account that was deleted: a
\* token issued for it still verifies
SecondAdmin == NumUsers + 1
Deleted == NumUsers + 2
Admins == {Admin, SecondAdmin}
Accounts == Actors \cup {SecondAdmin, Deleted}

\* what the Authorization header holds: nothing, a token jwt.verify rejects
\* (bad signature or expired), or a token that verifies
Tokens == {"none", "invalid", "valid"}

\* the isActive field of the request body: the two values isBoolean()
\* accepts, and one it rejects
Bodies == {"true", "false", "bad"}

\* the accounts as registered: every user and the admin, all active
Registered ==
    [a \in Actors |-> [exists |-> TRUE, isActive |-> TRUE, role |-> role(a)]]

\* AuthProvider's initialState with no token stored, and CartProvider's
\* initial state: nobody logged in, no cart shown, no request under way
LoggedOut ==
    [user |-> 0, isAuthenticated |-> FALSE, token |-> 0, cartData |-> 0,
     effect |-> FALSE, pending |-> <<>>, events |-> 0]

\* orderSchema.status enum
Statuses == {"pending", "processing", "shipped", "delivered", "cancelled"}

\* a request slot with no request in it
Idle ==
    [kind |-> "none", pc |-> "idle", actor |-> 0, product |-> 0,
     quantity |-> 0, stock |-> 0, cart |-> <<>>, fresh |-> TRUE,
     items |-> <<>>, totalItems |-> 0, totalAmount |-> 0,
     orderNumber |-> 0, order |-> 0, idx |-> 0, data |-> <<>>,
     token |-> "none", target |-> 0, body |-> "none", wasActive |-> FALSE,
     result |-> "none"]

\* the response has been sent: only what the client saw is kept
Done(r, res) ==
    [Idle EXCEPT !.kind = req[r].kind, !.pc = "done", !.actor = req[r].actor,
                 !.product = req[r].product, !.quantity = req[r].quantity,
                 !.order = req[r].order, !.result = res]

\* A request is taken up by the lowest slot that holds no running request
\* (the slots are interchangeable).
Free(r) ==
    /\ req[r].pc \in {"idle", "done"}
    /\ \A x \in 1..(r - 1) : req[x].pc \notin {"idle", "done"}

\* positions at which a request holds a loaded User document
HoldsUser ==
    {"populate", "saveOrder", "decrement", "clearCart", "addSave", "updateSave",
     "removeSave", "clearSave"}

\* A write that increments the User document's version key __v makes the
\* __v held by every other request that loaded the same user out of date.
\* Versions are only ever compared for equality with the stored one, so a
\* request keeps the flag "fresh" instead of the number.
BumpVersion(u, r, R) ==
    [x \in Reqs |->
        IF x # r /\ R[x].actor = u /\ R[x].pc \in HoldsUser
        THEN [R[x] EXCEPT !.fresh = FALSE]
        ELSE R[x]]

\* Product.findByIdAndUpdate(id, {$inc: {quantity: d}}): no validators run,
\* and an id that matches no document updates nothing
IncQuantity(prods, p, d) ==
    IF prods[p].exists
    THEN [prods EXCEPT ![p].quantity = @ + d]
    ELSE prods

\* userSchema.methods.clearCart: this.cart = []
clearCart(c) == <<>>

\* new Order({...}) with the schema defaults for status and deliveryDate
NewOrder(l) ==
    [orderNumber |-> l.orderNumber, customer |-> l.actor, items |-> l.items,
     totalItems |-> l.totalItems, totalAmount |-> l.totalAmount,
     status |-> "pending", deliveryDate |-> "null"]

\* ------------------------------------------------------------- checkout
\* (mutant) the stock check refuses a line that asks for all that is left
RECURSIVE ValidateCartStrict(_, _, _)
ValidateCartStrict(c, prods, acc) ==
    IF c = <<>> THEN acc
    ELSE LET cartItem == Head(c)
             product == prods[cartItem.product]
         IN  IF ~product.exists \/ ~product.isActive
             THEN [acc EXCEPT !.result = "ProductUnavailable",
                              !.named = IF product.exists
                                        THEN cartItem.product ELSE 0]
             ELSE IF product.quantity <= cartItem.quantity
             THEN [acc EXCEPT !.result = "InsufficientStock",
                              !.named = cartItem.product]
             ELSE LET itemTotal == product.price * cartItem.quantity
                  IN  ValidateCartStrict(Tail(c), prods,
                        [acc EXCEPT
                            !.items = Append(@, [product |-> cartItem.product,
                                                 price |-> product.price,
                                                 quantity |-> cartItem.quantity,
                                                 total |-> itemTotal]),
                            !.totalItems = @ + cartItem.quantity,
                            !.totalAmount = @ + itemTotal])

\* (mutant) totalAmount accumulates the unit price instead of the line total
RECURSIVE ValidateCartUnitPrice(_, _, _)
ValidateCartUnitPrice(c, prods, acc) ==
    IF c = <<>> THEN acc
    ELSE LET cartItem == Head(c)
             product == prods[cartItem.product]
         IN  IF ~product.exists \/ ~product.isActive
             THEN [acc EXCEPT !.result = "ProductUnavailable",
                              !.named = IF product.exists
                                        THEN cartItem.product ELSE 0]
             ELSE IF product.quantity < cartItem.quantity
             THEN [acc EXCEPT !.result = "InsufficientStock",
                              !.named = cartItem.product]
             ELSE LET itemTotal == product.price * cartItem.quantity
                  IN  ValidateCartUnitPrice(Tail(c), prods,
                        [acc EXCEPT
                            !.items = Append(@, [product |-> cartItem.product,
                                                 price |-> product.price,
                                                 quantity |-> cartItem.quantity,
                                                 total |-> itemTotal]),
                            !.totalItems = @ + cartItem.quantity,
                            !.totalAmount = @ + product.price])

\* the for loop of POST /checkout over the populated cart
RECURSIVE ValidateCart(_, _, _)
ValidateCart(c, prods, acc) ==
    IF c = <<>> THEN acc
    ELSE LET cartItem == Head(c)
             product == prods[cartItem.product]
         IN  IF ~product.exists \/ ~product.isActive
             THEN [acc EXCEPT !.result = "ProductUnavailable",
                              !.named = IF product.exists
                                        THEN cartItem.product ELSE 0]
             ELSE IF product.quantity < cartItem.quantity
             THEN [acc EXCEPT !.result = "InsufficientStock",
                              !.named = cartItem.product]
             ELSE LET itemTotal == product.price * cartItem.quantity
                  IN  ValidateCart(Tail(c), prods,
                        [acc EXCEPT
                            !.items = Append(@, [product |-> cartItem.product,
                                                 price |-> product.price,
                                                 quantity |-> cartItem.quantity,
                                                 total |-> itemTotal]),
                            !.totalItems = @ + cartItem.quantity,
                            !.totalAmount = @ + itemTotal])

\* the loop's variables before its first turn; "named" is the product the
\* 400 message names (0: none, or 'unknown' for a deleted product)
EmptyTotals ==
    [result |-> "ok", named |-> 0, items |-> <<>>, totalItems |-> 0,
     totalAmount |-> 0]

\* the isLength bounds of the shippingAddress validators
AddressBounds ==
    [fullName |-> <<2, 100>>, address |-> <<10, 200>>, city |-> <<2, 50>>,
     postalCode |-> <<4, 10>>, country |-> <<2, 50>>]

\* validationResult(req).isEmpty(), on the lengths of the address fields
ValidAddress(addr) ==
    \A f \in DOMAIN AddressBounds :
        addr[f] >= AddressBounds[f][1] /\ addr[f] <= AddressBounds[f][2]

\* request bodies: every field at its least length, or one field one short,
\* at its greatest length, or one over it
ShippingAddresses ==
    LET least == [f \in DOMAIN AddressBounds |-> AddressBounds[f][1]]
    IN  {least} \cup
        UNION {{[least EXCEPT ![f] = v] :
                    v \in {AddressBounds[f][1] - 1, AddressBounds[f][2],
                           AddressBounds[f][2] + 1}} :
               f \in DOMAIN AddressBounds}

\* (mutant) the address is validated after the cart has been emptied
CheckoutValidateLate(r, u, addr) ==
    /\ Free(r)
    /\ started < MaxRequests
    /\ started' = started + 1
    /\ ~ValidAddress(addr)
    /\ req' = [req EXCEPT ![r] = [Idle EXCEPT !.kind = "checkout",
                                              !.pc = "done", !.actor = u,
                                              !.result = "ValidationError"]]
    /\ cart' = [cart EXCEPT ![u] = clearCart(@)]
    /\ UNCHANGED <<products, orders, account, client>>

\* POST /checkout with a shippingAddress that fails a validator: 400 before
\* the first query
CheckoutValidate(r, u, addr) ==
    /\ Free(r)
    /\ started < MaxRequests
    /\ started' = started + 1
    /\ ~ValidAddress(addr)
    /\ req' = [req EXCEPT ![r] = [Idle EXCEPT !.kind = "checkout",
                                              !.pc = "done", !.actor = u,
                                              !.result = "ValidationError"]]
    /\ UNCHANGED <<products, cart, orders, account, client>>

\* POST /checkout with a shippingAddress that passes the validators:
\* User.findById(req.user._id), the request arrives and loads the user
CheckoutFindUser(r, u) ==
    /\ Free(r)
    /\ started < MaxRequests
    /\ started' = started + 1
    /\ req' = [req EXCEPT ![r] = [Idle EXCEPT !.kind = "checkout",
                                              !.pc = "populate",
                                              !.actor = u,
                                              !.cart = cart[u]]]
    /\ UNCHANGED <<products, cart, orders, account, client>>

\* (mutant) the validation loop takes the stock of each line as it accepts it
RECURSIVE ReserveWhileValid(_, _)
ReserveWhileValid(c, prods) ==
    IF c = <<>> THEN prods
    ELSE LET cartItem == Head(c)
             product == prods[cartItem.product]
         IN  IF ~product.exists \/ ~product.isActive
                \/ product.quantity < cartItem.quantity
             THEN prods
             ELSE ReserveWhileValid(Tail(c),
                    IncQuantity(prods, cartItem.product, -cartItem.quantity))

CheckoutPopulateReserving(r) ==
    /\ req[r].kind = "checkout" /\ req[r].pc = "populate"
    /\ LET v == ValidateCart(req[r].cart, products, EmptyTotals)
       IN  IF Len(req[r].cart) = 0
           THEN /\ req' = [req EXCEPT ![r] = Done(r, "EmptyCart")]
                /\ products' = products
           ELSE IF v.result # "ok"
           THEN /\ req' = [req EXCEPT ![r] = [Done(r, v.result)
                                               EXCEPT !.product = v.named]]
                /\ products' = ReserveWhileValid(req[r].cart, products)
           ELSE /\ \E n \in OrderNumbers :
                    req' = [req EXCEPT ![r].pc = "saveOrder",
                                       ![r].items = v.items,
                                       ![r].totalItems = v.totalItems,
                                       ![r].totalAmount = v.totalAmount,
                                       ![r].orderNumber = n]
                /\ products' = products
    /\ UNCHANGED <<cart, orders, started, account, client>>

\* .populate('cart.product'), then the empty-cart check, the validation
\* loop and the order number, all without another await
CheckoutPopulate(r) ==
    /\ req[r].kind = "checkout" /\ req[r].pc = "populate"
    /\ IF Len(req[r].cart) = 0
       THEN req' = [req EXCEPT ![r] = Done(r, "EmptyCart")]
       ELSE LET v == ValidateCart(req[r].cart, products, EmptyTotals)
            IN  IF v.result # "ok"
                THEN req' = [req EXCEPT ![r] = [Done(r, v.result)
                                                  EXCEPT !.product = v.named]]
                ELSE \E n \in OrderNumbers :
                        req' = [req EXCEPT ![r].pc = "saveOrder",
                                           ![r].items = v.items,
                                           ![r].totalItems = v.totalItems,
                                           ![r].totalAmount = v.totalAmount,
                                           ![r].orderNumber = n]
    /\ UNCHANGED <<products, cart, orders, started, account, client>>

\* (mutant) orderNumber has no unique index
CheckoutSaveOrderNoIndex(r) ==
    /\ req[r].kind = "checkout" /\ req[r].pc = "saveOrder"
    /\ orders' = Append(orders, NewOrder(req[r]))
    /\ req' = [req EXCEPT ![r].pc = "decrement",
                          ![r].order = Len(orders) + 1,
                          ![r].idx = 1]
    /\ UNCHANGED <<products, cart, started, account, client>>

\* order.save(): the unique index on orderNumber rejects a duplicate, the
\* error lands in the catch block and the client gets a 500
CheckoutSaveOrder(r) ==
    /\ req[r].kind = "checkout" /\ req[r].pc = "saveOrder"
    /\ IF \E i \in 1..Len(orders) : orders[i].orderNumber = req[r].orderNumber
       THEN /\ req' = [req EXCEPT ![r] = Done(r, "ServerError")]
            /\ orders' = orders
       ELSE /\ orders' = Append(orders, NewOrder(req[r]))
            /\ req' = [req EXCEPT ![r].pc = "decrement",
                                  ![r].order = Len(orders) + 1,
                                  ![r].idx = 1]
    /\ UNCHANGED <<products, cart, started, account, client>>

\* (mutant) every line takes one unit of stock whatever its quantity
CheckoutDecrementByOne(r) ==
    /\ req[r].kind = "checkout" /\ req[r].pc = "decrement"
    /\ LET item == req[r].items[req[r].idx]
       IN  products' = IncQuantity(products, item.product, -1)
    /\ req' = IF req[r].idx < Len(req[r].items)
              THEN [req EXCEPT ![r].idx = @ + 1]
              ELSE [req EXCEPT ![r].pc = "clearCart", ![r].idx = 0]
    /\ UNCHANGED <<cart, orders, started, account, client>>

\* one turn of the inventory loop:
\* Product.findByIdAndUpdate(item.product, {$inc: {quantity: -item.quantity}})
CheckoutDecrement(r) ==
    /\ req[r].kind = "checkout" /\ req[r].pc = "decrement"
    /\ LET item == req[r].items[req[r].idx]
       IN  products' = IncQuantity(products, item.product, -item.quantity)
    /\ req' = IF req[r].idx < Len(req[r].items)
              THEN [req EXCEPT ![r].idx = @ + 1]
              ELSE [req EXCEPT ![r].pc = "clearCart", ![r].idx = 0]
    /\ UNCHANGED <<cart, orders, started, account, client>>

\* user.clearCart(), then the 201 response (order.populate only reads)
CheckoutClearCart(r) ==
    /\ req[r].kind = "checkout" /\ req[r].pc = "clearCart"
    /\ LET u == req[r].actor
       IN  IF req[r].fresh
           THEN /\ cart' = [cart EXCEPT ![u] = clearCart(req[r].cart)]
                /\ req' = [BumpVersion(u, r, req) EXCEPT ![r] = Done(r, "OrderPlaced")]
           ELSE /\ cart' = cart
                /\ req' = [req EXCEPT ![r] = Done(r, "ServerError")]
    /\ UNCHANGED <<products, orders, started, account, client>>

\* --------------------------------------------------------------- orders
\* (mutant) an order on its way or delivered can still be cancelled
canBeCancelledUnlessCancelled(order) == order.status # "cancelled"

\* (mutant) only a delivered order is refused
canBeCancelledUnlessDelivered(order) == order.status # "delivered"

\* orderSchema.methods.canBeCancelled
canBeCancelled(order) == order.status \in {"pending", "processing"}

\* (mutant) the delivery date is stamped as soon as the order is shipped
updateStatusStampShipped(order, newStatus) ==
    [order EXCEPT !.status = newStatus,
                  !.deliveryDate = IF newStatus \in {"shipped", "delivered"}
                                   THEN "date" ELSE @]

\* (mutant) a cancelled order is zeroed as if refunded
updateStatusRefunding(order, newStatus) ==
    [order EXCEPT !.status = newStatus,
                  !.deliveryDate = IF newStatus = "delivered" THEN "date" ELSE @,
                  !.totalAmount = IF newStatus = "cancelled" THEN 0 ELSE @]

\* orderSchema.methods.updateStatus: save() writes the modified paths
updateStatus(order, newStatus) ==
    [order EXCEPT !.status = newStatus,
                  !.deliveryDate = IF newStatus = "delivered" THEN "date" ELSE @]

\* (mutant) the cancellable check comes before the ownership check
CancelFindStatusFirst(r, a, o) ==
    /\ Free(r)
    /\ started < MaxRequests
    /\ started' = started + 1
    /\ LET l == [Idle EXCEPT !.kind = "cancel", !.actor = a, !.order = o]
           fail(res) == [l EXCEPT !.pc = "done", !.result = res]
       IN  IF o > Len(orders)
           THEN req' = [req EXCEPT ![r] = fail("NotFound")]
           ELSE IF ~canBeCancelled(orders[o])
           THEN req' = [req EXCEPT ![r] = fail("NotCancellable")]
           ELSE IF orders[o].customer # a /\ role(a) # "admin"
           THEN req' = [req EXCEPT ![r] = fail("Forbidden")]
           ELSE req' = [req EXCEPT ![r] = [l EXCEPT !.pc = "updateStatus",
                                                    !.items = orders[o].items]]
    /\ UNCHANGED <<products, cart, orders, account, client>>

\* PUT /:id/cancel up to the first write: Order.findById, then the 404,
\* ownership and cancellable checks
CancelFind(r, a, o) ==
    /\ Free(r)
    /\ started < MaxRequests
    /\ started' = started + 1
    /\ LET l == [Idle EXCEPT !.kind = "cancel", !.actor = a, !.order = o]
           fail(res) == [l EXCEPT !.pc = "done", !.result = res]
       IN  IF o > Len(orders)
           THEN req' = [req EXCEPT ![r] = fail("NotFound")]
           ELSE IF orders[o].customer # a /\ role(a) # "admin"
           THEN req' = [req EXCEPT ![r] = fail("Forbidden")]
           ELSE IF ~canBeCancelled(orders[o])
           THEN req' = [req EXCEPT ![r] = fail("NotCancellable")]
           ELSE req' = [req EXCEPT ![r] = [l EXCEPT !.pc = "updateStatus",
                                                    !.items = orders[o].items]]
    /\ UNCHANGED <<products, cart, orders, account, client>>

\* await order.updateStatus('cancelled')
CancelUpdateStatus(r) ==
    /\ req[r].kind = "cancel" /\ req[r].pc = "updateStatus"
    /\ orders' = [orders EXCEPT ![req[r].order] = updateStatus(@, "cancelled")]
    /\ req' = [req EXCEPT ![r].pc = "restore", ![r].idx = 1]
    /\ UNCHANGED <<products, cart, started, account, client>>

\* (mutant) the restore loop stops after the first line
CancelRestoreFirstLine(r) ==
    /\ req[r].kind = "cancel" /\ req[r].pc = "restore"
    /\ LET item == req[r].items[req[r].idx]
       IN  products' = IncQuantity(products, item.product, item.quantity)
    /\ req' = [req EXCEPT ![r] = Done(r, "Cancelled")]
    /\ UNCHANGED <<cart, orders, started, account, client>>

\* one turn of the restore loop:
\* Product.findByIdAndUpdate(item.product, {$inc: {quantity: item.quantity}})
CancelRestore(r) ==
    /\ req[r].kind = "cancel" /\ req[r].pc = "restore"
    /\ LET item == req[r].items[req[r].idx]
       IN  products' = IncQuantity(products, item.product, item.quantity)
    /\ req' = IF req[r].idx < Len(req[r].items)
              THEN [req EXCEPT ![r].idx = @ + 1]
              ELSE [req EXCEPT ![r] = Done(r, "Cancelled")]
    /\ UNCHANGED <<cart, orders, started, account, client>>

\* (mutant) the orders of every customer are listed
RECURSIVE getOrdersByAnyUser(_, _)
getOrdersByAnyUser(a, i) ==
    IF i = 0 THEN <<>>
    ELSE <<i>> \o getOrdersByAnyUser(a, i - 1)

\* orderSchema.statics.getOrdersByUser: find({customer: userId}), newest
\* first; i runs from the newest order down
RECURSIVE getOrdersByUser(_, _)
getOrdersByUser(a, i) ==
    IF i = 0 THEN <<>>
    ELSE IF orders[i].customer = a
    THEN <<i>> \o getOrdersByUser(a, i - 1)
    ELSE getOrdersByUser(a, i - 1)

\* GET /api/orders
GetOrders(r, a) ==
    /\ Free(r)
    /\ started < MaxRequests
    /\ started' = started + 1
    /\ req' = [req EXCEPT ![r] =
                [Idle EXCEPT !.kind = "orders", !.pc = "done", !.actor = a,
                             !.data = getOrdersByUser(a, Len(orders)),
                             !.result = "Listed"]]
    /\ UNCHANGED <<products, cart, orders, account, client>>

\* GET /api/orders/:id
GetOrder(r, a, o) ==
    /\ Free(r)
    /\ started < MaxRequests
    /\ started' = started + 1
    /\ LET l == [Idle EXCEPT !.kind = "order", !.pc = "done", !.actor = a,
                             !.order = o]
       IN  IF o > Len(orders)
           THEN req' = [req EXCEPT ![r] = [l EXCEPT !.result = "NotFound"]]
           ELSE IF orders[o].customer # a /\ role(a) # "admin"
           THEN req' = [req EXCEPT ![r] = [l EXCEPT !.result = "Forbidden"]]
           ELSE req' = [req EXCEPT ![r] = [l EXCEPT !.result = "Found",
                                                    !.data = <<o>>]]
    /\ UNCHANGED <<products, cart, orders, account, client>>

\* PUT /orders/:id/status (admin): any of the five values may be set
AdminSetStatus(o, newStatus) ==
    /\ started < MaxRequests
    /\ started' = started + 1
    /\ o \in 1..Len(orders)
    /\ orders' = [orders EXCEPT ![o] = updateStatus(@, newStatus)]
    /\ UNCHANGED <<products, cart, req, account, client>>

\* ----------------------------------------------------------------- cart
\* this.cart.find(item => item.product.toString() === productId): the
\* position of the first line of product p, 0 when there is none
RECURSIVE CartFind(_, _, _)
CartFind(c, p, i) ==
    IF i > Len(c) THEN 0
    ELSE IF c[i].product = p THEN i
    ELSE CartFind(c, p, i + 1)

\* (mutant) a product already in the cart gets a second line
addToCartAppending(c, p, q) == Append(c, [product |-> p, quantity |-> q])

\* userSchema.methods.addToCart, on the loaded document
addToCart(c, p, q) ==
    LET i == CartFind(c, p, 1)
    IN  IF i # 0
        THEN [c EXCEPT ![i].quantity = @ + q]
        ELSE Append(c, [product |-> p, quantity |-> q])

\* POST /add/:productId up to Product.findById and the two product checks
AddFindProduct(r, u, p, q) ==
    /\ Free(r)
    /\ started < MaxRequests
    /\ started' = started + 1
    /\ LET l == [Idle EXCEPT !.kind = "add", !.actor = u, !.product = p,
                             !.quantity = q]
           fail(res) == [l EXCEPT !.pc = "done", !.result = res]
       IN  IF ~products[p].exists \/ ~products[p].isActive
           THEN req' = [req EXCEPT ![r] = fail("NotFound")]
           ELSE IF products[p].quantity < q
           THEN req' = [req EXCEPT ![r] = fail("InsufficientStock")]
           ELSE req' = [req EXCEPT ![r] = [l EXCEPT !.pc = "addFindUser",
                                                    !.stock = products[p].quantity]]
    /\ UNCHANGED <<products, cart, orders, account, client>>

\* (mutant) the quantity already in the cart is not counted
AddFindUserIgnoringCart(r) ==
    /\ req[r].kind = "add" /\ req[r].pc = "addFindUser"
    /\ req' = [req EXCEPT ![r].pc = "addSave", ![r].cart = cart[req[r].actor]]
    /\ UNCHANGED <<products, cart, orders, started, account, client>>

\* User.findById, then the check of the quantity already in the cart
AddFindUser(r) ==
    /\ req[r].kind = "add" /\ req[r].pc = "addFindUser"
    /\ LET c == cart[req[r].actor]
           i == CartFind(c, req[r].product, 1)
           currentQuantity == IF i # 0 THEN c[i].quantity ELSE 0
       IN  IF currentQuantity + req[r].quantity > req[r].stock
           THEN req' = [req EXCEPT ![r] = Done(r, "InsufficientStock")]
           ELSE req' = [req EXCEPT ![r].pc = "addSave", ![r].cart = c]
    /\ UNCHANGED <<products, cart, orders, started, account, client>>

\* (mutant) adding to the cart reserves the stock
AddSaveReserving(r) ==
    /\ req[r].kind = "add" /\ req[r].pc = "addSave"
    /\ cart' = [cart EXCEPT ![req[r].actor] =
                    addToCart(@, req[r].product, req[r].quantity)]
    /\ products' = IncQuantity(products, req[r].product, -req[r].quantity)
    /\ req' = [req EXCEPT ![r] = Done(r, "Added")]
    /\ UNCHANGED <<orders, started, account, client>>

\* user.addToCart(productId, quantity) and its save().  A new line is a
\* $push, which increments __v without checking it; a changed quantity is
\* a $set of cart.<i>.quantity, which is applied only if __v is unchanged
\* and fails with a VersionError otherwise.
AddSave(r) ==
    /\ req[r].kind = "add" /\ req[r].pc = "addSave"
    /\ LET u == req[r].actor
           p == req[r].product
           i == CartFind(req[r].cart, p, 1)
           local == addToCart(req[r].cart, p, req[r].quantity)
           ok == Done(r, "Added")
       IN  IF i = 0
           THEN /\ cart' = [cart EXCEPT ![u] = Append(@, local[Len(local)])]
                /\ req' = [BumpVersion(u, r, req) EXCEPT ![r] = ok]
           ELSE IF req[r].fresh
           THEN /\ cart' = [cart EXCEPT ![u][i].quantity = local[i].quantity]
                /\ req' = [req EXCEPT ![r] = ok]
           ELSE /\ cart' = cart
                /\ req' = [req EXCEPT ![r] = Done(r, "ServerError")]
    /\ UNCHANGED <<products, orders, started, account, client>>

\* (mutant) the cart is emptied when a product is removed
removeFromCartAll(c, p) == <<>>

\* userSchema.methods.removeFromCart, on the loaded document
removeFromCart(c, p) == SelectSeq(c, LAMBDA item : item.product # p)

\* (mutant) the requested quantity is added to the line
updateCartQuantityAdding(c, p, q) ==
    LET i == CartFind(c, p, 1)
    IN  [c EXCEPT ![i].quantity = @ + q]

\* userSchema.methods.updateCartQuantity, on a loaded document that holds a
\* line of product p (it throws when there is none)
updateCartQuantity(c, p, q) ==
    LET i == CartFind(c, p, 1)
    IN  IF q <= 0
        THEN removeFromCart(c, p)
        ELSE [c EXCEPT ![i].quantity = q]

\* PUT /update/:productId up to Product.findById: the validator of
\* quantity, then the product and stock checks
UpdateFindProduct(r, u, p, q) ==
    /\ Free(r)
    /\ started < MaxRequests
    /\ started' = started + 1
    /\ LET l == [Idle EXCEPT !.kind = "update", !.actor = u, !.product = p,
                             !.quantity = q]
           fail(res) == [l EXCEPT !.pc = "done", !.result = res]
       IN  IF q < 1
           THEN req' = [req EXCEPT ![r] = fail("ValidationError")]
           ELSE IF ~products[p].exists \/ ~products[p].isActive
           THEN req' = [req EXCEPT ![r] = fail("NotFound")]
           ELSE IF products[p].quantity < q
           THEN req' = [req EXCEPT ![r] = fail("InsufficientStock")]
           ELSE req' = [req EXCEPT ![r] = [l EXCEPT !.pc = "updateFindUser",
                                                    !.stock = products[p].quantity]]
    /\ UNCHANGED <<products, cart, orders, account, client>>

\* User.findById, then updateCartQuantity up to its save(): a cart without a
\* line of the product makes it throw 'Item not found in cart'
UpdateFindUser(r) ==
    /\ req[r].kind = "update" /\ req[r].pc = "updateFindUser"
    /\ LET c == cart[req[r].actor]
       IN  IF CartFind(c, req[r].product, 1) = 0
           THEN req' = [req EXCEPT ![r] = Done(r, "ItemNotFound")]
           ELSE req' = [req EXCEPT ![r].pc = "updateSave", ![r].cart = c]
    /\ UNCHANGED <<products, cart, orders, started, account, client>>

\* the save() of updateCartQuantity.  A quantity equal to the loaded one
\* modifies nothing and nothing is written; a changed quantity is a $set of
\* cart.<i>.quantity, applied only if __v is unchanged; the reassigned array
\* of removeFromCart is a $set of cart that checks and increments __v.
UpdateSave(r) ==
    /\ req[r].kind = "update" /\ req[r].pc = "updateSave"
    /\ LET u == req[r].actor
           p == req[r].product
           i == CartFind(req[r].cart, p, 1)
           local == updateCartQuantity(req[r].cart, p, req[r].quantity)
           ok == Done(r, "Updated")
       IN  IF local = req[r].cart
           THEN /\ cart' = cart
                /\ req' = [req EXCEPT ![r] = ok]
           ELSE IF ~req[r].fresh
           THEN /\ cart' = cart
                /\ req' = [req EXCEPT ![r] = Done(r, "ServerError")]
           ELSE IF req[r].quantity <= 0
           THEN /\ cart' = [cart EXCEPT ![u] = local]
                /\ req' = [BumpVersion(u, r, req) EXCEPT ![r] = ok]
           ELSE /\ cart' = [cart EXCEPT ![u][i].quantity = local[i].quantity]
                /\ req' = [req EXCEPT ![r] = ok]
    /\ UNCHANGED <<products, orders, started, account, client>>

\* DELETE /remove/:productId up to User.findById and the check that the cart
\* holds the product
RemoveFindUser(r, u, p) ==
    /\ Free(r)
    /\ started < MaxRequests
    /\ started' = started + 1
    /\ LET l == [Idle EXCEPT !.kind = "remove", !.actor = u, !.product = p]
       IN  IF CartFind(cart[u], p, 1) = 0
           THEN req' = [req EXCEPT ![r] = [l EXCEPT !.pc = "done",
                                                    !.result = "ItemNotFound"]]
           ELSE req' = [req EXCEPT ![r] = [l EXCEPT !.pc = "removeSave",
                                                    !.cart = cart[u]]]
    /\ UNCHANGED <<products, cart, orders, account, client>>

\* user.removeFromCart(productId) and its save(): the reassigned array is a
\* $set of cart, applied only if __v is unchanged, and increments __v
RemoveSave(r) ==
    /\ req[r].kind = "remove" /\ req[r].pc = "removeSave"
    /\ LET u == req[r].actor
       IN  IF req[r].fresh
           THEN /\ cart' = [cart EXCEPT ![u] = removeFromCart(req[r].cart,
                                                            req[r].product)]
                /\ req' = [BumpVersion(u, r, req) EXCEPT ![r] = Done(r, "Removed")]
           ELSE /\ cart' = cart
                /\ req' = [req EXCEPT ![r] = Done(r, "ServerError")]
    /\ UNCHANGED <<products, orders, started, account, client>>

\* DELETE /clear up to User.findById
ClearFindUser(r, u) ==
    /\ Free(r)
    /\ started < MaxRequests
    /\ started' = started + 1
    /\ req' = [req EXCEPT ![r] = [Idle EXCEPT !.kind = "clear", !.actor = u,
                                              !.pc = "clearSave",
                                              !.cart = cart[u]]]
    /\ UNCHANGED <<products, cart, orders, account, client>>

\* user.clearCart() and its save(): an empty array assigned over an empty
\* cart modifies nothing and nothing is written; otherwise a $set of cart
\* that checks and increments __v
ClearSave(r) ==
    /\ req[r].kind = "clear" /\ req[r].pc = "clearSave"
    /\ LET u == req[r].actor
           ok == Done(r, "Cleared")
       IN  IF clearCart(req[r].cart) = req[r].cart
           THEN /\ cart' = cart
                /\ req' = [req EXCEPT ![r] = ok]
           ELSE IF req[r].fresh
           THEN /\ cart' = [cart EXCEPT ![u] = clearCart(req[r].cart)]
                /\ req' = [BumpVersion(u, r, req) EXCEPT ![r] = ok]
           ELSE /\ cart' = cart
                /\ req' = [req EXCEPT ![r] = Done(r, "ServerError")]
    /\ UNCHANGED <<products, orders, started, account, client>>

\* (mutant) the cart view keeps the lines of inactive products
RECURSIVE ViewItemsAll(_, _)
ViewItemsAll(c, prods) ==
    IF c = <<>> THEN <<>>
    ELSE LET item == Head(c)
             product == prods[item.product]
         IN  IF product.exists
             THEN <<[product |-> item.product, price |-> product.price,
                     quantity |-> item.quantity,
                     total |-> product.price * item.quantity]>>
                  \o ViewItemsAll(Tail(c), prods)
             ELSE ViewItemsAll(Tail(c), prods)

\* user.cart.filter(item => item.product && item.product.isActive) over the
\* populated cart, each line with its product's price
RECURSIVE ViewItems(_, _)
ViewItems(c, prods) ==
    IF c = <<>> THEN <<>>
    ELSE LET item == Head(c)
             product == prods[item.product]
         IN  IF product.exists /\ product.isActive
             THEN <<[product |-> item.product, price |-> product.price,
                     quantity |-> item.quantity,
                     total |-> product.price * item.quantity]>>
                  \o ViewItems(Tail(c), prods)
             ELSE ViewItems(Tail(c), prods)

\* the forEach over activeCartItems that accumulates a total
RECURSIVE ViewTotal(_, _)
ViewTotal(items, field) ==
    IF items = <<>> THEN 0
    ELSE Head(items)[field] + ViewTotal(Tail(items), field)

\* GET /api/cart: the query for the user
ViewFindUser(r, u) ==
    /\ Free(r)
    /\ started < MaxRequests
    /\ started' = started + 1
    /\ req' = [req EXCEPT ![r] = [Idle EXCEPT !.kind = "view", !.actor = u,
                                              !.pc = "viewPopulate",
                                              !.cart = cart[u]]]
    /\ UNCHANGED <<products, cart, orders, account, client>>

\* the query of populate('cart.product'), then the filter, the totals (a
\* whole number of cents, which toFixed(2) leaves as it is) and the response
ViewPopulate(r) ==
    /\ req[r].kind = "view" /\ req[r].pc = "viewPopulate"
    /\ LET activeCartItems == ViewItems(req[r].cart, products)
       IN  req' = [req EXCEPT ![r] =
                    [Done(r, "Viewed") EXCEPT
                        !.items = activeCartItems,
                        !.totalItems = ViewTotal(activeCartItems, "quantity"),
                        !.totalAmount = ViewTotal(activeCartItems, "total")]]
    /\ UNCHANGED <<products, cart, orders, started, account, client>>

\* ---------------------------------------------------------------------
\* The frontend: AuthProvider and CartProvider (AuthContext.tsx)
\*
\* client.user and client.isAuthenticated are the AuthState; client.token is
\* localStorage's token (0: none, u: a token of user u); client.cartData is
\* the CartProvider's cartData (0: null, u: the cart of user u);
\* client.effect says that [isAuthenticated, user] changed and the effect
\* on them has not run yet; client.pending are the calls of cartApi that
\* have not been answered, each with the token the request interceptor put
\* on it when it was sent.

\* number of logins and cart actions of the person at the browser
MaxClientEvents == 4

\* the calls of cartApi that change the cart
CartCalls == {"addToCart", "updateCartItem", "removeFromCart", "clearCart"}

\* authReducer, for the actions LOGIN_SUCCESS (of user u) and LOGOUT
authReducer(c, type, u) ==
    IF type = "LOGIN_SUCCESS"
    THEN [c EXCEPT !.user = u, !.isAuthenticated = TRUE]
    ELSE IF type = "LOGOUT"
    THEN [c EXCEPT !.user = 0, !.isAuthenticated = FALSE]
    ELSE c

\* a call of cartApi: the request leaves with the token that localStorage
\* holds at that moment
Send(c, call) ==
    [c EXCEPT !.pending = Append(@, [call |-> call, token |-> c.token])]

\* pending without its i-th call
Answered(q, i) == SubSeq(q, 1, i - 1) \o SubSeq(q, i + 1, Len(q))

\* fetchCart up to its await, as the closure of a render in which
\* isAuthenticated had the value authenticated
fetchCart(c, authenticated) ==
    IF ~authenticated
    THEN [c EXCEPT !.cartData = 0]
    ELSE Send(c, "getCart")

\* login(): the response of POST /api/auth/login stores the token and
\* dispatches LOGIN_SUCCESS
Login(u) ==
    /\ ~client.isAuthenticated
    /\ client.events < MaxClientEvents
    /\ client' = [authReducer(client, "LOGIN_SUCCESS", u) EXCEPT
                    !.token = u, !.effect = TRUE, !.events = @ + 1]
    /\ UNCHANGED <<products, cart, orders, req, started, account>>

\* logout(): the token is removed and LOGOUT is dispatched
Logout ==
    /\ client.isAuthenticated
    /\ client' = [authReducer(client, "LOGOUT", 0) EXCEPT
                    !.token = 0, !.effect = TRUE]
    /\ UNCHANGED <<products, cart, orders, req, started, account>>

\* CartProvider's effect on [isAuthenticated, user]
CartEffect ==
    /\ client.effect
    /\ client' = IF client.isAuthenticated /\ client.user # 0
                 THEN [fetchCart(client, client.isAuthenticated)
                            EXCEPT !.effect = FALSE]
                 ELSE [client EXCEPT !.cartData = 0, !.effect = FALSE]
    /\ UNCHANGED <<products, cart, orders, req, started, account>>

\* refreshCart, called by a page
RefreshCart ==
    /\ client.events < MaxClientEvents
    /\ client' = [fetchCart(client, client.isAuthenticated)
                    EXCEPT !.events = @ + 1]
    /\ UNCHANGED <<products, cart, orders, req, started, account>>

\* addToCart, updateCartItem, removeFromCart, clearCart up to the await of
\* the call of cartApi; a client that is not authenticated gets an Error
CartAction(call) ==
    /\ client.isAuthenticated
    /\ client.events < MaxClientEvents
    /\ client' = [Send(client, call) EXCEPT !.events = @ + 1]
    /\ UNCHANGED <<products, cart, orders, req, started, account>>

\* the answer to the i-th pending call. A request without a token is
\* refused by the server, any other succeeds (ok) or fails. The data of a
\* getCart that succeeded is put in cartData; after a cart call that
\* succeeded, the action goes on to its fetchCart, the closure of a render
\* in which isAuthenticated was true; a failure sets only the error.
Response(i, ok) ==
    /\ i \in 1..Len(client.pending)
    /\ LET call == client.pending[i]
           rest == [client EXCEPT !.pending = Answered(@, i)]
       IN  /\ ok => call.token # 0
           /\ client' = IF ~ok THEN rest
                        ELSE IF call.call = "getCart"
                        THEN [rest EXCEPT !.cartData = call.token]
                        ELSE fetchCart(rest, TRUE)
    /\ UNCHANGED <<products, cart, orders, req, started, account>>

\* ---------------------------------------------------------------------
\* Authentication, and PUT /api/auth/admin/users/:id/status

\* a response of the middleware or of the status route: the slot keeps the
\* route, the account the token named and the answer
Answer(r, res) ==
    [Idle EXCEPT !.kind = req[r].kind, !.pc = "done", !.actor = req[r].actor,
                 !.token = req[r].token, !.result = res]

\* the middleware up to its first await: a missing token is refused, and
\* jwt.verify throws on a token that does not verify; otherwise
\* User.findById(decoded.userId) is issued for the account a the token names
AuthenticateToken(r, a, tok, k, tgt, b) ==
    /\ Free(r)
    /\ started < MaxRequests
    /\ started' = started + 1
    /\ IF tok # "valid"
       THEN req' = [req EXCEPT ![r] = [Idle EXCEPT
                        !.kind = k, !.token = tok,
                        !.pc = "done", !.result = "Unauthorized"]]
       ELSE req' = [req EXCEPT ![r] = [Idle EXCEPT
                        !.kind = k, !.token = tok, !.actor = a,
                        !.target = tgt, !.body = b,
                        !.pc = "authFindUser"]]
    /\ UNCHANGED <<products, cart, orders, account, client>>

\* PUT /admin/users/:id/status after authenticateToken: requireAdmin, the
\* validator of the body, and the handler up to its first await
StatusChecks(r) ==
    IF account[req[r].actor].role # "admin"
    THEN Answer(r, "Forbidden")
    ELSE IF req[r].body \notin {"true", "false"}
    THEN Answer(r, "ValidationError")
    ELSE IF req[r].target = req[r].actor
    THEN Answer(r, "OwnAccount")
    ELSE [req[r] EXCEPT !.pc = "statusFindUser"]

\* (mutant) the middleware lets a deactivated account through
AuthFindUserIgnoringActive(r) ==
    /\ req[r].pc = "authFindUser"
    /\ LET a == req[r].actor
       IN  IF ~account[a].exists
           THEN req' = [req EXCEPT ![r] = Answer(r, "Unauthorized")]
           ELSE IF req[r].kind = "userStatus"
           THEN req' = [req EXCEPT ![r] = StatusChecks(r)]
           ELSE req' = [req EXCEPT ![r] = [req[r] EXCEPT !.pc = "handler"]]
    /\ UNCHANGED <<products, cart, orders, started, account, client>>

\* the result of User.findById(decoded.userId): no such user, or a user
\* that is not active, is refused; otherwise req.user is set and next()
\* runs what follows on the route
AuthFindUser(r) ==
    /\ req[r].pc = "authFindUser"
    /\ LET a == req[r].actor
       IN  IF ~account[a].exists \/ ~account[a].isActive
           THEN req' = [req EXCEPT ![r] = Answer(r, "Unauthorized")]
           ELSE IF req[r].kind = "userStatus"
           THEN req' = [req EXCEPT ![r] = StatusChecks(r)]
           ELSE req' = [req EXCEPT ![r] = [req[r] EXCEPT !.pc = "handler"]]
    /\ UNCHANGED <<products, cart, orders, started, account, client>>

\* the handlers of DELETE /cart/clear and POST /orders/checkout behind the
\* middleware: User.findById(req.user._id) loads the user with the cart
HandlerFindUser(r) ==
    /\ req[r].pc = "handler"
    /\ req' = [req EXCEPT ![r] = [req[r] EXCEPT
                    !.pc = IF req[r].kind = "clear" THEN "clearSave"
                                                    ELSE "populate",
                    !.cart = cart[req[r].actor],
                    !.fresh = TRUE]]
    /\ UNCHANGED <<products, cart, orders, started, account, client>>

\* User.findById(id) of the status handler
StatusFindUser(r) ==
    /\ req[r].kind = "userStatus" /\ req[r].pc = "statusFindUser"
    /\ LET t == req[r].target
       IN  IF ~account[t].exists
           THEN req' = [req EXCEPT ![r] = Answer(r, "NotFound")]
           ELSE req' = [req EXCEPT ![r] = [req[r] EXCEPT
                            !.pc = "statusSave",
                            !.wasActive = account[t].isActive]]
    /\ UNCHANGED <<products, cart, orders, started, account, client>>

\* user.isActive = isActive; await user.save(): the field is written when
\* the assignment changed the loaded document, and nothing is written
\* otherwise
StatusSave(r) ==
    /\ req[r].kind = "userStatus" /\ req[r].pc = "statusSave"
    /\ LET t == req[r].target
           v == (req[r].body = "true")
       IN  /\ account' = IF v = req[r].wasActive
                         THEN account
                         ELSE [account EXCEPT ![t].isActive = v]
           /\ req' = [req EXCEPT ![r] = Answer(r, "Updated")]
    /\ UNCHANGED <<products, cart, orders, started, client>>


\* ------------------------------------------------------- product admin
\* PUT /api/products/:id: the fields present in the body are written by one
\* findByIdAndUpdate with runValidators
UpdateProduct(p, updateFields) ==
    /\ started < MaxRequests
    /\ started' = started + 1
    /\ products[p].exists
    /\ products' = [products EXCEPT ![p] =
            [exists |-> TRUE,
             isActive |-> IF updateFields.isActive = {} THEN @.isActive
                          ELSE CHOOSE v \in updateFields.isActive : TRUE,
             price |-> IF updateFields.price = {} THEN @.price
                       ELSE CHOOSE v \in updateFields.price : TRUE,
             quantity |-> IF updateFields.quantity = {} THEN @.quantity
                          ELSE CHOOSE v \in updateFields.quantity : TRUE]]
    /\ UNCHANGED <<cart, orders, req, account, client>>

\* DELETE /api/products/:id
DeleteProduct(p) ==
    /\ started < MaxRequests
    /\ started' = started + 1
    /\ products[p].exists
    /\ products' = [products EXCEPT ![p].exists = FALSE]
    /\ UNCHANGED <<cart, orders, req, account, client>>

\* request bodies of PUT /api/products/:id that change one field
ProductUpdates ==
    {[isActive |-> {b}, price |-> {}, quantity |-> {}] : b \in BOOLEAN} \cup
    {[isActive |-> {}, price |-> {v}, quantity |-> {}] : v \in Prices} \cup
    {[isActive |-> {}, price |-> {}, quantity |-> {n}] : n \in 0..MaxStock}

\* ------------------------------------------------------- specifications
Init ==
    /\ products = [p \in Products |->
                     [exists |-> TRUE, isActive |-> TRUE,
                      price |-> ((p - 1) % MaxPrice) + 1, quantity |-> MaxStock]]
    /\ cart = [u \in Users |-> <<>>]
    /\ orders = <<>>
    /\ req = [r \in Reqs |-> Idle]
    /\ account = Registered
    /\ client = LoggedOut
    /\ started = 0

CartNext ==
    \/ \E r \in Reqs, u \in Users, p \in Products, q \in Quantities :
            AddFindProduct(r, u, p, q)
    \/ \E r \in Reqs : AddFindUser(r)
    \/ \E r \in Reqs : AddSave(r)

CartUpdateNext ==
    \/ \E r \in Reqs, u \in Users, p \in Products, q \in 0..MaxQty :
            UpdateFindProduct(r, u, p, q)
    \/ \E r \in Reqs : UpdateFindUser(r)
    \/ \E r \in Reqs : UpdateSave(r)

CartRemoveNext ==
    \/ \E r \in Reqs, u \in Users, p \in Products : RemoveFindUser(r, u, p)
    \/ \E r \in Reqs : RemoveSave(r)
    \/ \E r \in Reqs, u \in Users : ClearFindUser(r, u)
    \/ \E r \in Reqs : ClearSave(r)

CartViewNext ==
    \/ \E r \in Reqs, u \in Users : ViewFindUser(r, u)
    \/ \E r \in Reqs : ViewPopulate(r)

CheckoutNext ==
    \/ \E r \in Reqs, u \in Users : CheckoutFindUser(r, u)
    \/ \E r \in Reqs : CheckoutPopulate(r)
    \/ \E r \in Reqs : CheckoutSaveOrder(r)
    \/ \E r \in Reqs : CheckoutDecrement(r)
    \/ \E r \in Reqs : CheckoutClearCart(r)

CancelNext ==
    \/ \E r \in Reqs, a \in Actors, o \in 1..MaxOrders : CancelFind(r, a, o)
    \/ \E r \in Reqs : CancelUpdateStatus(r)
    \/ \E r \in Reqs : CancelRestore(r)

AdminNext ==
    \/ \E o \in 1..MaxOrders, s \in Statuses : AdminSetStatus(o, s)
    \/ \E p \in Products, f \in ProductUpdates : UpdateProduct(p, f)
    \/ \E p \in Products : DeleteProduct(p)

Next ==
    \/ CartNext \/ CartUpdateNext \/ CartRemoveNext \/ CartViewNext
    \/ CheckoutNext \/ CancelNext \/ AdminNext

Spec == Init /\ [][Next]_vars

\* requests served one after the other: a request arrives only when every
\* earlier one has answered, so only the first slot is ever taken
Sequential ==
    /\ \A r \in Reqs : r > 1 => req'[r] = req[r]
    /\ started' # started => \A r \in Reqs : req[r].pc \in {"idle", "done"}

NextSequential == Next /\ Sequential

SpecSequential == Init /\ [][NextSequential]_vars

OrderReadNext ==
    \/ \E r \in Reqs, a \in Actors : GetOrders(r, a)
    \/ \E r \in Reqs, a \in Actors, o \in 1..MaxOrders : GetOrder(r, a, o)

\* carts filled, nothing ordered yet: every product at full stock and every
\* user with one line of quantity 1 in the cart
InitCarts ==
    /\ products = [p \in Products |->
                     [exists |-> TRUE, isActive |-> TRUE,
                      price |-> ((p - 1) % MaxPrice) + 1, quantity |-> MaxStock]]
    /\ cart \in [Users -> {<<[product |-> p, quantity |-> 1]>> : p \in Products}]
    /\ orders = <<>>
    /\ req = [r \in Reqs |-> Idle]
    /\ account = Registered
    /\ client = LoggedOut
    /\ started = 0

\* the order routes and the admin status update, with no edit of products
OrdersNext ==
    \/ \E r \in Reqs, u \in Users, addr \in ShippingAddresses :
            CheckoutValidate(r, u, addr)
    \/ CheckoutNext
    \/ CancelNext
    \/ OrderReadNext
    \/ \E o \in 1..MaxOrders, st \in Statuses : AdminSetStatus(o, st)

SpecOrders == InitCarts /\ [][OrdersNext]_vars

\* who asks for a change of account status, and of which account
StatusActors == Admins \cup {1}
StatusTargets == Admins \cup {1, Deleted}

\* number of requests that pass through the middleware
MaxAuthRequests == 3

\* the accounts: two users and two administrators, all active, and the id
\* of a deleted account; every user has a line in the cart
InitAuth ==
    /\ products = [p \in Products |->
                     [exists |-> TRUE, isActive |-> TRUE,
                      price |-> ((p - 1) % MaxPrice) + 1, quantity |-> MaxStock]]
    /\ cart = [u \in Users |-> <<[product |-> u, quantity |-> 1]>>]
    /\ orders = <<>>
    /\ req = [r \in Reqs |-> Idle]
    /\ account = [a \in Accounts |->
                    [exists |-> a # Deleted, isActive |-> TRUE,
                     role |-> IF a \in Admins THEN "admin" ELSE "user"]]
    /\ client = LoggedOut
    /\ started = MaxRequests - MaxAuthRequests

\* requests through authenticateToken: the cart and order routes of the
\* users, and the account-status route
AuthNext ==
    \/ \E r \in Reqs, a \in Users \cup {Deleted}, tok \in Tokens,
            k \in {"clear", "checkout"} :
            AuthenticateToken(r, a, tok, k, 0, "none")
    \/ \E r \in Reqs, a \in StatusActors, tok \in Tokens,
            t \in StatusTargets, b \in Bodies :
            AuthenticateToken(r, a, tok, "userStatus", t, b)
    \/ \E r \in Reqs : AuthFindUser(r)
    \/ \E r \in Reqs : HandlerFindUser(r)
    \/ \E r \in Reqs : StatusFindUser(r)
    \/ \E r \in Reqs : StatusSave(r)
    \/ \E r \in Reqs : ClearSave(r)
    \/ \E r \in Reqs : CheckoutPopulate(r)
    \/ \E r \in Reqs : CheckoutSaveOrder(r)
    \/ \E r \in Reqs : CheckoutDecrement(r)
    \/ \E r \in Reqs : CheckoutClearCart(r)

SpecAuth == InitAuth /\ [][AuthNext]_vars

\* the browser of one person, who logs in as one user or the other
ClientNext ==
    \/ \E u \in Users : Login(u)
    \/ Logout
    \/ CartEffect
    \/ RefreshCart
    \/ \E call \in CartCalls : CartAction(call)
    \/ \E i \in 1..MaxClientEvents, ok \in BOOLEAN : Response(i, ok)

SpecClient == Init /\ [][ClientNext]_vars

\* the last unit: one product at stock 1, in the cart of both users with
\* quantity 1, and exactly two checkout requests to come
InitLastUnit ==
    /\ \E p \in Products :
        /\ products \in [Products -> [exists : {TRUE}, isActive : BOOLEAN,
                                      price : Prices, quantity : 0..MaxStock]]
        /\ products[p].quantity = 1 /\ products[p].isActive
        /\ cart = [u \in Users |-> <<[product |-> p, quantity |-> 1]>>]
    /\ orders = <<>>
    /\ req = [r \in Reqs |-> Idle]
    /\ account = Registered
    /\ client = LoggedOut
    /\ started = MaxRequests - 2

SpecLastUnit == InitLastUnit /\ [][CheckoutNext]_vars

\* ---------------------------------------------------------------- claims
IsDone(r, k) == req[r].kind = k /\ req[r].pc = "done"

\* C1: in every state reachable by cart add, checkout and cancel requests,
\* with every database call a separate step, every Product's quantity is >= 0.
C1_StockNonNegative == \A p \in Products : products[p].quantity >= 0

\* C2: with one product at stock 1 and that product alone, quantity 1, in
\* the carts of two users, two interleaved checkouts never create two
\* orders, and once both have answered exactly one has succeeded and the
\* other has failed with InsufficientStock.
C2_OneSuccessOneFailure ==
    /\ Len(orders) <= 1
    /\ \A r1, r2 \in Reqs :
        (IsDone(r1, "checkout") /\ IsDone(r2, "checkout")
            /\ req[r1].actor # req[r2].actor)
        => {req[r1].result, req[r2].result} = {"OrderPlaced", "InsufficientStock"}

\* C4: the commit of a checkout is atomic: whenever the Order of a checkout
\* exists, that checkout has decremented the stock of every line and has
\* cleared the cart, whether the request is still running or has answered.
C4_CommitAtomic ==
    \A r \in Reqs :
        (req[r].kind = "checkout" /\ req[r].order # 0)
        => (req[r].pc = "done" /\ req[r].result = "OrderPlaced")
\* the step of the next-state relation is a step of request r
Starts(r, k) ==
    req[r].pc \in {"idle", "done"} /\ req'[r].kind = k /\ req'[r] # req[r]
Moves(r, k, from) ==
    req[r].kind = k /\ req[r].pc = from
        /\ (req'[r].pc # from \/ req'[r].idx # req[r].idx)

DatabaseUnchanged == products' = products /\ orders' = orders /\ cart' = cart

\* C3: a checkout that fails the validation of some cart line (product
\* missing, inactive, or stock below the line's quantity) has, in all the
\* steps it took, changed no Product, created no Order and left every cart
\* as it was.
C3_FailedValidationNoEffect ==
    [][\A r \in Reqs :
        /\ Starts(r, "checkout") => DatabaseUnchanged
        /\ (Moves(r, "checkout", "populate")
                /\ req'[r].result \in {"ProductUnavailable", "InsufficientStock"})
            => (req'[r].pc = "done" /\ DatabaseUnchanged)]_vars

\* a checkout has failed on the second line of a two-line cart
C3_Witness ==
    \E r \in Reqs :
        /\ IsDone(r, "checkout")
        /\ req[r].result \in {"ProductUnavailable", "InsufficientStock"}
        /\ req[r].product # 0
        /\ Len(cart[req[r].actor]) = 2
        /\ cart[req[r].actor][1].product # req[r].product
        /\ cart[req[r].actor][2].product = req[r].product
        /\ orders = <<>>
\* products' differs from products only in the quantity of product p, which
\* has changed by d (a deleted product has no stock and nothing changes)
OnlyStockDelta(p, d) ==
    /\ \A x \in Products \ {p} : products'[x] = products[x]
    /\ IF products[p].exists
       THEN products'[p] = [products[p] EXCEPT !.quantity = @ + d]
       ELSE products'[p] = products[p]

\* the lines of an order are the lines of a cart, in the same order
SameLines(items, c) ==
    /\ Len(items) = Len(c)
    /\ \A i \in 1..Len(c) :
        items[i].product = c[i].product /\ items[i].quantity = c[i].quantity

\* C5: a successful checkout creates exactly one Order, with status pending
\* and the lines of the cart it loaded; it then decrements once for every
\* line, each time lowering the stock of that line's product by that line's
\* quantity and changing no other product; and it ends with the user's
\* cart empty.
C5_SuccessfulCheckout ==
    [][\A r \in Reqs :
        /\ (Moves(r, "checkout", "saveOrder") /\ req'[r].pc # "done")
            => /\ req'[r].pc = "decrement" /\ req'[r].idx = 1
               /\ Len(orders') = Len(orders) + 1
               /\ \A i \in 1..Len(orders) : orders'[i] = orders[i]
               /\ orders'[Len(orders')].status = "pending"
               /\ orders'[Len(orders')].customer = req[r].actor
               /\ SameLines(orders'[Len(orders')].items, req[r].cart)
               /\ req'[r].items = orders'[Len(orders')].items
               /\ products' = products /\ cart' = cart
        /\ Moves(r, "checkout", "decrement")
            => /\ OnlyStockDelta(req[r].items[req[r].idx].product,
                                 -req[r].items[req[r].idx].quantity)
               /\ orders' = orders /\ cart' = cart
               /\ IF req[r].idx < Len(req[r].items)
                  THEN req'[r].pc = "decrement" /\ req'[r].idx = req[r].idx + 1
                  ELSE req'[r].pc = "clearCart"
        /\ (Moves(r, "checkout", "clearCart") /\ req'[r].result = "OrderPlaced")
            => /\ cart'[req[r].actor] = <<>>
               /\ \A u \in Users \ {req[r].actor} : cart'[u] = cart[u]
               /\ products' = products /\ orders' = orders
        /\ (req'[r].kind = "checkout" /\ req'[r].result = "OrderPlaced"
                /\ req[r].result # "OrderPlaced")
            => Moves(r, "checkout", "clearCart")]_vars

\* a checkout of a two-line cart has succeeded: its order is pending and
\* the buyer's cart is empty
C5_Witness ==
    \E r \in Reqs :
        /\ IsDone(r, "checkout") /\ req[r].result = "OrderPlaced"
        /\ Len(orders[req[r].order].items) = 2
        /\ orders[req[r].order].status = "pending"
        /\ cart[req[r].actor] = <<>>
        /\ \E p \in Products : products[p].quantity < MaxStock

\* every line of cart c passes the checks of the validation loop
LineAvailable(l) == products[l.product].exists /\ products[l.product].isActive
LineInStock(l) == products[l.product].quantity >= l.quantity
CartPasses(c) ==
    /\ Len(c) > 0
    /\ \A i \in 1..Len(c) : LineAvailable(c[i]) /\ LineInStock(c[i])

\* what POST /checkout answers at its precondition checks
PreconditionVerdict(r) ==
    LET c == req[r].cart
    IN  /\ req'[r].pc \in {"done", "saveOrder"}
        /\ req'[r].pc = "saveOrder" <=> CartPasses(c)
        /\ req'[r].result = "EmptyCart" <=> Len(c) = 0
        /\ req'[r].result = "ProductUnavailable"
            => \E i \in 1..Len(c) : ~LineAvailable(c[i])
        /\ req'[r].result = "InsufficientStock"
            => \E i \in 1..Len(c) : LineAvailable(c[i]) /\ ~LineInStock(c[i])
        /\ req'[r].pc = "done"
            => req'[r].result \in {"EmptyCart", "ProductUnavailable",
                                   "InsufficientStock"}

\* C6 as stated: a checkout succeeds if and only if its cart is non-empty
\* and every line's product exists, is active and has enough stock; it fails
\* with EmptyCart, ProductUnavailable or InsufficientStock otherwise.
C6_SucceedsIffCartPasses ==
    [][\A r \in Reqs :
        /\ Moves(r, "checkout", "populate") => PreconditionVerdict(r)
        /\ (req[r].kind = "checkout" /\ req[r].pc # "done" /\ req'[r].pc = "done"
                /\ req[r].pc # "populate")
            => req'[r].result = "OrderPlaced"]_vars

\* C6 (amended): a checkout passes its precondition checks if and only if
\* its cart is non-empty and every line's product exists, is active and has
\* enough stock; it fails them with EmptyCart, ProductUnavailable or
\* InsufficientStock; a checkout that passed them ends in success or, when
\* saving the order or the cart throws, in a server error.
C6_PassesIffCartPasses ==
    [][\A r \in Reqs :
        /\ Moves(r, "checkout", "populate") => PreconditionVerdict(r)
        /\ (req[r].kind = "checkout" /\ req[r].pc # "done" /\ req'[r].pc = "done"
                /\ req[r].pc # "populate")
            => req'[r].result \in {"OrderPlaced", "ServerError"}]_vars

\* a checkout was refused for a product that is in stock but inactive
C6_Witness ==
    \E r \in Reqs :
        /\ IsDone(r, "checkout") /\ req[r].result = "ProductUnavailable"
        /\ req[r].product # 0
        /\ ~products[req[r].product].isActive
        /\ products[req[r].product].quantity > 0

RECURSIVE SumOver(_, _, _)
SumOver(items, f(_), i) ==
    IF i > Len(items) THEN 0 ELSE f(items[i]) + SumOver(items, f, i + 1)

LineQuantity(l) == l.quantity
LineAmount(l) == l.price * l.quantity

\* C7: every Order's totalItems is the sum of its lines' quantities, its
\* totalAmount the sum of its lines' price * quantity, and every line's
\* total its price * quantity.
C7_TotalsConsistent ==
    \A i \in 1..Len(orders) :
        /\ orders[i].totalItems = SumOver(orders[i].items, LineQuantity, 1)
        /\ orders[i].totalAmount = SumOver(orders[i].items, LineAmount, 1)
        /\ \A k \in 1..Len(orders[i].items) :
            orders[i].items[k].total = LineAmount(orders[i].items[k])

\* an order of two lines with different prices, one of quantity above 1
C7_Witness ==
    \E i \in 1..Len(orders) :
        /\ Len(orders[i].items) = 2
        /\ orders[i].items[1].price # orders[i].items[2].price
        /\ \E k \in 1..2 : orders[i].items[k].quantity > 1

\* C8: once created, an Order is never deleted and its line items,
\* totalItems, totalAmount, customer and orderNumber never change.
C8_OrderSnapshotImmutable ==
    [][/\ Len(orders') >= Len(orders)
       /\ \A i \in 1..Len(orders) :
            /\ orders'[i].items = orders[i].items
            /\ orders'[i].totalItems = orders[i].totalItems
            /\ orders'[i].totalAmount = orders[i].totalAmount
            /\ orders'[i].customer = orders[i].customer
            /\ orders'[i].orderNumber = orders[i].orderNumber]_vars

\* an order has been cancelled and the product of its line has since been
\* repriced or deleted
C8_Witness ==
    \E i \in 1..Len(orders) :
        /\ orders[i].status = "cancelled"
        /\ LET l == orders[i].items[1]
           IN  ~products[l.product].exists \/ products[l.product].price # l.price

Authorized(a, o) == orders[o].customer = a \/ role(a) = "admin"

\* C9: a cancel by the owner or an admin of an order that is pending or
\* processing goes ahead: it sets the status to cancelled, then restores
\* once for every line, each time raising the stock of that line's product
\* by that line's quantity and changing no other product, and answers
\* success.
C9_CancelRestoresStock ==
    [][\A r \in Reqs :
        /\ (Starts(r, "cancel") /\ req'[r].order <= Len(orders)
                /\ Authorized(req'[r].actor, req'[r].order)
                /\ orders[req'[r].order].status \in {"pending", "processing"})
            => /\ req'[r].pc = "updateStatus"
               /\ req'[r].items = orders[req'[r].order].items
               /\ DatabaseUnchanged
        /\ Moves(r, "cancel", "updateStatus")
            => /\ orders'[req[r].order].status = "cancelled"
               /\ \A i \in 1..Len(orders) :
                    i # req[r].order => orders'[i] = orders[i]
               /\ products' = products
               /\ req'[r].pc = "restore" /\ req'[r].idx = 1
        /\ Moves(r, "cancel", "restore")
            => /\ OnlyStockDelta(req[r].items[req[r].idx].product,
                                 req[r].items[req[r].idx].quantity)
               /\ orders' = orders
               /\ IF req[r].idx < Len(req[r].items)
                  THEN req'[r].pc = "restore" /\ req'[r].idx = req[r].idx + 1
                  ELSE req'[r].pc = "done" /\ req'[r].result = "Cancelled"]_vars

\* a cancel of a two-line order has answered success
C9_Witness ==
    \E r \in Reqs :
        /\ IsDone(r, "cancel") /\ req[r].result = "Cancelled"
        /\ orders[req[r].order].status = "cancelled"
        /\ Len(orders[req[r].order].items) = 2

\* C10: a cancel, by the owner or an admin, of an order that is shipped,
\* delivered or cancelled answers NotCancellable and changes neither the
\* order nor any stock.
C10_NotCancellable ==
    [][\A r \in Reqs :
        (Starts(r, "cancel") /\ req'[r].order <= Len(orders)
            /\ Authorized(req'[r].actor, req'[r].order)
            /\ orders[req'[r].order].status \in {"shipped", "delivered", "cancelled"})
        => /\ req'[r].pc = "done" /\ req'[r].result = "NotCancellable"
           /\ DatabaseUnchanged]_vars

\* a cancel of a shipped order has been refused
C10_Witness ==
    \E r \in Reqs :
        /\ IsDone(r, "cancel") /\ req[r].result = "NotCancellable"
        /\ orders[req[r].order].status = "shipped"

\* C11: a cancel is atomic with its stock restoration: in no state has a
\* cancel request set its order to cancelled while the stock of some line of
\* that order is still to be restored.
C11_CancelAtomic ==
    \A r \in Reqs :
        ~(/\ req[r].kind = "cancel" /\ req[r].pc = "restore"
          /\ orders[req[r].order].status = "cancelled"
          /\ req[r].idx <= Len(req[r].items))

\* C12: a cancel by an actor who is neither the customer of the order nor an
\* admin answers Forbidden whatever the status of the order, and changes no
\* order, no stock and no cart.
C12_ForbiddenCancel ==
    [][\A r \in Reqs :
        (Starts(r, "cancel") /\ req'[r].order <= Len(orders)
            /\ ~Authorized(req'[r].actor, req'[r].order))
        => /\ req'[r].pc = "done" /\ req'[r].result = "Forbidden"
           /\ DatabaseUnchanged]_vars

\* a stranger's cancel of a shipped order has been refused as Forbidden
C12_Witness ==
    \E r \in Reqs :
        /\ IsDone(r, "cancel") /\ req[r].result = "Forbidden"
        /\ orders[req[r].order].status = "shipped"
        /\ orders[req[r].order].customer # req[r].actor

\* C13 (as stated): every step that changes an order's status to cancelled
\* starts from a state in which that status is pending or processing.
C13_CancelledOnlyFromOpen ==
    [][\A o \in 1..Len(orders) :
        (orders'[o].status = "cancelled" /\ orders[o].status # "cancelled")
        => orders[o].status \in {"pending", "processing"}]_vars

\* C13 (amended): a cancel request goes on to its write only if the order it
\* loaded was pending or processing, and a step that changes a status to
\* cancelled from any other value is the write of such a cancel request or
\* an admin status update.
C13_CancelReadsOpen ==
    [][/\ \A r \in Reqs :
            (Starts(r, "cancel") /\ req'[r].pc = "updateStatus")
            => orders[req'[r].order].status \in {"pending", "processing"}
       /\ \A o \in 1..Len(orders) :
            (/\ orders'[o].status = "cancelled"
             /\ orders[o].status \notin {"pending", "processing", "cancelled"})
            => \/ req' = req /\ started' = started + 1
               \/ \E r \in Reqs :
                    Moves(r, "cancel", "updateStatus") /\ req[r].order = o]_vars

\* a cancel request that read its order as pending is about to write
\* cancelled over a status that has meanwhile become shipped
C13_Witness ==
    \E r \in Reqs :
        /\ req[r].kind = "cancel" /\ req[r].pc = "updateStatus"
        /\ orders[req[r].order].status = "shipped"

\* C14: an order is created with deliveryDate null; a step changes the
\* deliveryDate of an order only by setting it while it leaves the status
\* delivered, so a status update to any other value leaves it as it was;
\* and an order whose status is delivered has its deliveryDate set.
C14_DeliveryDate ==
    [][/\ Len(orders') > Len(orders)
            => orders'[Len(orders')].deliveryDate = "null"
       /\ \A o \in 1..Len(orders) :
            /\ orders'[o].deliveryDate # orders[o].deliveryDate
                => /\ orders'[o].status = "delivered"
                   /\ orders'[o].deliveryDate = "date"
            /\ orders'[o].status = "delivered"
                => orders'[o].deliveryDate = "date"]_vars

\* an order that was delivered and then moved on keeps its deliveryDate
C14_Witness ==
    \E o \in 1..Len(orders) :
        orders[o].status = "shipped" /\ orders[o].deliveryDate = "date"

\* C15: resubmitting a checkout is safe: with one cart per user and no cart
\* refilled, two checkout requests of the same user, one after the other or
\* interleaved, create at most one order for that user, and once both have
\* answered one has succeeded and the other has failed with EmptyCart.
C15_ResubmissionSafe ==
    /\ \A u \in Users :
        Cardinality({o \in 1..Len(orders) : orders[o].customer = u}) <= 1
    /\ \A r1, r2 \in Reqs :
        (r1 # r2 /\ IsDone(r1, "checkout") /\ IsDone(r2, "checkout")
            /\ req[r1].actor = req[r2].actor)
        => {req[r1].result, req[r2].result} = {"OrderPlaced", "EmptyCart"}

\* C16: no two orders share an orderNumber: a checkout whose generated
\* number is that of an existing order answers with a server error, having
\* changed no order, no stock and no cart in any of its steps.
C16_OrderNumbersUnique ==
    [][/\ \A i, j \in 1..Len(orders') :
            i # j => orders'[i].orderNumber # orders'[j].orderNumber
       /\ \A r \in Reqs :
            /\ (Starts(r, "checkout") \/ Moves(r, "checkout", "populate"))
                => DatabaseUnchanged
            /\ (/\ Moves(r, "checkout", "saveOrder")
                /\ \E o \in 1..Len(orders) :
                        orders[o].orderNumber = req[r].orderNumber)
                => /\ DatabaseUnchanged
                   /\ req'[r].pc = "done" /\ req'[r].result = "ServerError"]_vars

\* a checkout of a non-empty cart has failed on its order number while
\* another order exists
C16_Witness ==
    \E r \in Reqs :
        /\ IsDone(r, "checkout") /\ req[r].result = "ServerError"
        /\ req[r].order = 0
        /\ Len(orders) = 1
        /\ cart[req[r].actor] # <<>>

LinesOf(c, p) == {k \in 1..Len(c) : c[k].product = p}
OtherLines(c, p) == SelectSeq(c, LAMBDA item : item.product # p)

\* C17: with requests served one after the other, an accepted add of
\* quantity b of a product leaves exactly one cart line for that product,
\* holding the quantity a that was in the cart for it (0 when it had no
\* line) plus b, and leaves the lines of all other products and the carts
\* of other users as they were; so two accepted adds of a and b give one
\* line of a + b.
C17_AddMerges ==
    [][\A r \in Reqs :
        Moves(r, "add", "addSave")
        => LET u == req[r].actor
               p == req[r].product
               i == CartFind(cart[u], p, 1)
               a == IF i = 0 THEN 0 ELSE cart[u][i].quantity
           IN  /\ req'[r].pc = "done" /\ req'[r].result = "Added"
               /\ Cardinality(LinesOf(cart'[u], p)) = 1
               /\ \A k \in LinesOf(cart'[u], p) :
                    cart'[u][k].quantity = a + req[r].quantity
               /\ OtherLines(cart'[u], p) = OtherLines(cart[u], p)
               /\ \A x \in Users : x # u => cart'[x] = cart[x]]_vars

\* a second add of a product has answered, and the one line of that product
\* holds more than was just added, next to a line of another product
C17_Witness ==
    \E r \in Reqs :
        /\ IsDone(r, "add") /\ req[r].result = "Added"
        /\ LET c == cart[req[r].actor]
               p == req[r].product
           IN  /\ Cardinality(LinesOf(c, p)) = 1
               /\ \A k \in LinesOf(c, p) : c[k].quantity > req[r].quantity
               /\ OtherLines(c, p) # <<>>

\* C18: in every reachable state every cart holds at most one line per
\* product and every line's quantity is at least 1.
C18_CartWellFormed ==
    \A u \in Users :
        /\ \A p \in Products : Cardinality(LinesOf(cart[u], p)) <= 1
        /\ \A k \in 1..Len(cart[u]) : cart[u][k].quantity >= 1

\* C19: an add fails when the product it reads is missing or inactive or has
\* stock below the requested quantity, and when the quantity it finds in the
\* cart for the product plus the requested quantity exceeds the stock it
\* read; a failed add has changed no cart in any of its steps; the line
\* written by a successful add holds a quantity <= the stock it read.
C19_AddChecks ==
    [][\A r \in Reqs :
        /\ Starts(r, "add")
            => LET product == products[req'[r].product]
               IN  /\ DatabaseUnchanged
                   /\ (~product.exists \/ ~product.isActive)
                        => req'[r].pc = "done" /\ req'[r].result = "NotFound"
                   /\ (product.exists /\ product.isActive
                            /\ req'[r].quantity > product.quantity)
                        => /\ req'[r].pc = "done"
                           /\ req'[r].result = "InsufficientStock"
        /\ Moves(r, "add", "addFindUser")
            => LET c == cart[req[r].actor]
                   i == CartFind(c, req[r].product, 1)
                   a == IF i = 0 THEN 0 ELSE c[i].quantity
               IN  /\ DatabaseUnchanged
                   /\ a + req[r].quantity > req[r].stock
                        => /\ req'[r].pc = "done"
                           /\ req'[r].result = "InsufficientStock"
        /\ Moves(r, "add", "addSave")
            => LET u == req[r].actor
                   i == CartFind(req[r].cart, req[r].product, 1)
                   k == IF i = 0 THEN Len(cart'[u]) ELSE i
               IN  IF req'[r].result = "Added"
                   THEN /\ cart'[u][k].product = req[r].product
                        /\ cart'[u][k].quantity <= req[r].stock
                        /\ cart'[u][k].quantity >= req[r].quantity
                   ELSE cart' = cart]_vars

\* an add of a quantity that is in stock has been refused because of what
\* the cart already holds
C19_Witness ==
    \E r \in Reqs :
        /\ IsDone(r, "add") /\ req[r].result = "InsufficientStock"
        /\ products[req[r].product].exists
        /\ products[req[r].product].quantity >= req[r].quantity
        /\ LinesOf(cart[req[r].actor], req[r].product) # {}

\* C20: with requests served one after the other, an update of a cart
\* line's quantity fails when the quantity is below 1, when it exceeds the
\* stock of the product, and when the cart has no line of the product; a
\* failed update has changed no cart in any of its steps; a successful one
\* has set the quantity of the product's line to the requested quantity,
\* removed no line and changed no other line and no other cart.
C20_UpdateChecks ==
    [][\A r \in Reqs :
        /\ Starts(r, "update")
            => LET product == products[req'[r].product]
               IN  /\ DatabaseUnchanged
                   /\ req'[r].quantity < 1
                        => /\ req'[r].pc = "done"
                           /\ req'[r].result = "ValidationError"
                   /\ (req'[r].quantity >= 1 /\ product.exists
                            /\ req'[r].quantity > product.quantity)
                        => /\ req'[r].pc = "done"
                           /\ req'[r].result \in {"NotFound", "InsufficientStock"}
                           /\ product.isActive
                                => req'[r].result = "InsufficientStock"
        /\ Moves(r, "update", "updateFindUser")
            => /\ DatabaseUnchanged
               /\ LinesOf(cart[req[r].actor], req[r].product) = {}
                    => /\ req'[r].pc = "done"
                       /\ req'[r].result = "ItemNotFound"
        /\ Moves(r, "update", "updateSave")
            => LET u == req[r].actor
                   i == CartFind(cart[u], req[r].product, 1)
               IN  /\ req'[r].pc = "done" /\ req'[r].result = "Updated"
                   /\ i # 0
                   /\ cart' = [cart EXCEPT ![u][i].quantity = req[r].quantity]]_vars

\* an update has answered success on a cart of two lines, of which the
\* second now holds the requested quantity
C20_Witness ==
    \E r \in Reqs :
        /\ IsDone(r, "update") /\ req[r].result = "Updated"
        /\ LET c == cart[req[r].actor]
           IN  /\ Len(c) = 2
               /\ c[2].product = req[r].product
               /\ c[2].quantity = req[r].quantity
               /\ c[1].quantity # req[r].quantity

\* C21: with requests served one after the other, a remove of a product
\* that has no line in the cart answers ItemNotFound (404) and changes
\* nothing; otherwise it answers success having removed that product's line
\* and left every other line and every other cart as they were, so that
\* the cart then holds no line of the product and a second remove of it
\* answers ItemNotFound.
C21_RemoveChecks ==
    [][\A r \in Reqs :
        /\ Starts(r, "remove")
            => LET c == cart[req'[r].actor]
               IN  /\ DatabaseUnchanged
                   /\ IF LinesOf(c, req'[r].product) = {}
                      THEN /\ req'[r].pc = "done"
                           /\ req'[r].result = "ItemNotFound"
                      ELSE req'[r].pc = "removeSave"
        /\ Moves(r, "remove", "removeSave")
            => LET u == req[r].actor
                   p == req[r].product
               IN  /\ req'[r].pc = "done" /\ req'[r].result = "Removed"
                   /\ Len(cart'[u]) = Len(cart[u]) - 1
                   /\ LinesOf(cart'[u], p) = {}
                   /\ OtherLines(cart'[u], p) = OtherLines(cart[u], p)
                   /\ \A x \in Users : x # u => cart'[x] = cart[x]
                   /\ products' = products /\ orders' = orders]_vars

\* a second remove of a product has answered ItemNotFound while the cart
\* still holds the line of another product
C21_Witness ==
    \E r \in Reqs :
        /\ IsDone(r, "remove") /\ req[r].result = "ItemNotFound"
        /\ started = MaxRequests
        /\ Len(cart[req[r].actor]) = 1
        /\ LinesOf(cart[req[r].actor], req[r].product) = {}

\* C22: a cart view returns, in order, exactly the lines of the cart it
\* loaded whose product exists and is active, with totalItems the sum of
\* the quantities of the lines it returns, and neither of its steps changes
\* the stored cart (or any product or order): the lines of inactive
\* products stay in storage.
C22_ViewFilters ==
    [][\A r \in Reqs :
        /\ Starts(r, "view")
            => /\ req'[r].cart = cart[req'[r].actor]
               /\ DatabaseUnchanged
        /\ Moves(r, "view", "viewPopulate")
            => LET c == req[r].cart
                   shown == SelectSeq(c, LAMBDA item :
                                products[item.product].exists
                                    /\ products[item.product].isActive)
                   items == req'[r].items
               IN  /\ req'[r].pc = "done" /\ req'[r].result = "Viewed"
                   /\ Len(items) = Len(shown)
                   /\ \A k \in 1..Len(items) :
                        /\ items[k].product = shown[k].product
                        /\ items[k].quantity = shown[k].quantity
                   /\ req'[r].totalItems = SumOver(items, LineQuantity, 1)
                   /\ DatabaseUnchanged]_vars

\* a view, the last of a series of requests served one after the other, has
\* returned one line of a stored cart of two lines, the other being of a
\* product that is inactive
C22_Witness ==
    \E r \in Reqs :
        /\ IsDone(r, "view") /\ req[r].result = "Viewed"
        /\ \A x \in Reqs : x # r => req[x].pc = "idle"
        /\ Len(req[r].items) = 1
        /\ Len(cart[req[r].actor]) = 2
        /\ \E k \in 1..2 :
            LET product == products[cart[req[r].actor][k].product]
            IN  product.exists /\ ~product.isActive

CartKinds == {"add", "update", "remove", "clear", "view"}

\* the step is taken by request r, which is a cart request
CartStep(r) ==
    \E k \in CartKinds :
        Starts(r, k) \/ (req[r].kind = k /\ req'[r].pc # req[r].pc)

\* C23: no step of a cart request (add, update, remove, clear, view),
\* whether the request goes on to succeed or to fail, changes any Product
\* or any Order.
C23_CartOpsFrame ==
    [][\A r \in Reqs :
        CartStep(r) => products' = products /\ orders' = orders]_vars

\* a product has been added to a cart after an order had taken stock
C23_Witness ==
    \E r \in Reqs :
        /\ IsDone(r, "add") /\ req[r].result = "Added"
        /\ Len(orders) = 1
        /\ \E p \in Products : products[p].quantity < MaxStock
        /\ cart[req[r].actor] # <<>>

\* C24: the list of orders answered to a requester holds exactly the orders
\* whose customer is the requester; a request for one order by a requester
\* who is neither its customer nor an admin is answered Forbidden (403)
\* with no order in the response; and an order a non-admin is given is
\* one of their own.
C24_ReadOwnOrders ==
    [][\A r \in Reqs :
        /\ Starts(r, "orders")
            => /\ req'[r].pc = "done"
               /\ {req'[r].data[k] : k \in 1..Len(req'[r].data)}
                    = {o \in 1..Len(orders) :
                            orders[o].customer = req'[r].actor}
               /\ DatabaseUnchanged
        /\ Starts(r, "order")
            => /\ req'[r].pc = "done"
               /\ DatabaseUnchanged
               /\ (req'[r].order <= Len(orders)
                        /\ ~Authorized(req'[r].actor, req'[r].order))
                    => req'[r].result = "Forbidden" /\ req'[r].data = <<>>
               /\ \A k \in 1..Len(req'[r].data) :
                    Authorized(req'[r].actor, req'[r].data[k])]_vars

\* a customer has been listed their one order while another customer's
\* order exists
C24_Witness ==
    \E r \in Reqs :
        /\ IsDone(r, "orders") /\ role(req[r].actor) = "user"
        /\ Len(req[r].data) = 1
        /\ Len(orders) = 2
        /\ orders[1].customer # orders[2].customer

\* C25: a checkout whose shippingAddress fails a length validator is
\* answered ValidationError (400) in its first step, which changes no
\* Order, no Product and no cart, also when the cart would pass every check
\* of the checkout; a checkout goes on to load the cart only with an
\* address whose every field is within its bounds.
C25_AddressValidatedFirst ==
    [][\A r \in Reqs :
        (Starts(r, "checkout") /\ req'[r].result = "ValidationError")
        => /\ req'[r].pc = "done"
           /\ req'[r].order = 0
           /\ DatabaseUnchanged]_vars

\* a checkout of a cart that passes every check has been refused for its
\* address
C25_Witness ==
    \E r \in Reqs :
        /\ IsDone(r, "checkout") /\ req[r].result = "ValidationError"
        /\ Len(cart[req[r].actor]) = 1
        /\ CartPasses(cart[req[r].actor])
        /\ orders = <<>>

\* the quantity of product p over the lines of orders i.., cancelled orders
\* left out
RECURSIVE OrderedQuantity(_, _)
OrderedQuantity(p, i) ==
    IF i > Len(orders) THEN 0
    ELSE (IF orders[i].status = "cancelled" THEN 0
          ELSE SumOver(SelectSeq(orders[i].items,
                                 LAMBDA l : l.product = p), LineQuantity, 1))
         + OrderedQuantity(p, i + 1)

\* C26: stock is conserved: with every product starting at stock MaxStock
\* and no admin edit of products, in every state reachable by checkout,
\* cancel and status-update requests the stock of each product plus the
\* quantity of that product over the lines of all orders that are not
\* cancelled equals MaxStock.
C26_StockConserved ==
    \A p \in Products :
        products[p].quantity + OrderedQuantity(p, 1) = MaxStock

\* C27: the stock of an order's lines is restored at most once: of two
\* cancel requests for the same order that have both answered, at most one
\* has succeeded, and no product's stock has risen above the MaxStock it
\* started at.
C27_RestoredOnce ==
    \A r1, r2 \in Reqs :
        (r1 # r2 /\ IsDone(r1, "cancel") /\ IsDone(r2, "cancel")
            /\ req[r1].order = req[r2].order)
        => /\ ~(req[r1].result = "Cancelled" /\ req[r2].result = "Cancelled")
           /\ \A p \in Products : products[p].quantity <= MaxStock

\* C28: a request with no token or with a token that does not verify is
\* answered 401 at once; a request whose token names an account that is
\* missing or not active when the middleware looks it up is answered 401;
\* either way the step changes no cart, order, stock or account. A
\* non-admin on the account-status route is answered 403. A request gets
\* to a handler only from the middleware's lookup, with a token that
\* verifies and an account that exists and is active (and is an
\* administrator's, on the account-status route).
C28_AuthRequired ==
    [][\A r \in Reqs :
        LET a == req[r].actor
            refused(res) ==
                /\ req'[r].pc = "done" /\ req'[r].result = res
                /\ DatabaseUnchanged /\ account' = account
        IN  /\ (req[r].pc \in {"idle", "done"} /\ req'[r] # req[r]
                    /\ req'[r].token # "valid")
               => refused("Unauthorized")
            /\ (req[r].pc = "authFindUser" /\ req'[r] # req[r]
                    /\ ~(account[a].exists /\ account[a].isActive))
               => refused("Unauthorized")
            /\ (req[r].pc = "authFindUser" /\ req'[r] # req[r]
                    /\ req[r].kind = "userStatus"
                    /\ account[a].exists /\ account[a].isActive
                    /\ account[a].role # "admin")
               => refused("Forbidden")
            /\ (req'[r].pc \in {"handler", "statusFindUser"}
                    /\ req'[r].pc # req[r].pc)
               => /\ req[r].pc = "authFindUser" /\ req[r].token = "valid"
                  /\ account[a].exists /\ account[a].isActive
                  /\ req'[r].pc = "statusFindUser" => account[a].role = "admin"
      ]_vars

\* a user who has a cart was deactivated, and a request of that user to a
\* cart or order route, with a token that verifies, was answered 401
C28_Witness ==
    \E r \in Reqs :
        /\ req[r].kind \in {"clear", "checkout"}
        /\ req[r].pc = "done" /\ req[r].result = "Unauthorized"
        /\ req[r].token = "valid"
        /\ req[r].actor \in Users
        /\ ~account[req[r].actor].isActive
        /\ cart[req[r].actor] # <<>>

\* C29: some account that exists is an administrator's and is active
C29_ActiveAdminRemains ==
    \E a \in Accounts :
        account[a].exists /\ account[a].isActive /\ account[a].role = "admin"

\* C30: when nobody is logged in, the effect of the logout has run and no
\* call is pending, cartData is null
C30_LoggedOutCartHidden ==
    (~client.isAuthenticated /\ ~client.effect /\ client.pending = <<>>)
        => client.cartData = 0


====
